---- MODULE Spec2Model ----
(***************************************************************************)
(* Model of the chat page (src/src/app/page.tsx): the conversation log,    *)
(* handleSend, pushDelta, the read loop of streamFromOllama and the        *)
(* post-stream normalizer normalizeMarkdown.                               *)
(*                                                                         *)
(* Text is a sequence of one-character tokens.  Bytes on the wire are      *)
(* tokens too: an ASCII byte is the token of its character, and the one    *)
(* multi-byte character of the model, the ellipsis of "Thinking...", is    *)
(* the three bytes E2 80 A6.  A JSON record {"message":{"content":"x"}}    *)
(* is abbreviated to the line {x}.                                         *)
(***************************************************************************)
EXTENDS Integers, Sequences, FiniteSets, TLC

(* ---- bounds ---- *)
MaxSends   == 2    \* accepted sends (streams started)
MaxRecords == 2    \* records received in one session, all bodies together
MaxPieces  == 5    \* pieces of an input text of the normalizer
MaxContent == 3    \* characters of the content of a message to render

(* ---- characters and bytes ---- *)
LF       == "LF"      \* the newline
SP       == " "
BT       == "BT"      \* the backtick
ELLIPSIS == "..."     \* U+2026, the last character of the sentinel
FFFD     == "U+FFFD"  \* replacement character of TextDecoder
OTHER3   == "U+2xxx"  \* any other character encoded as E2 xx yy
Lead     == "E2"
Cont     == {"80", "A6"}
Null     == -1        \* aiIndexRef.current === null

Thinking == <<"T", ELLIPSIS>>      \* the sentinel "Thinking..." abbreviated

(* ---- String.prototype helpers ---- *)
IsSpace(c) == c \in {SP, LF}

RECURSIVE trimStart(_)
trimStart(s) ==
  IF s # <<>> /\ IsSpace(Head(s)) THEN trimStart(Tail(s)) ELSE s

RECURSIVE trimEnd(_)
trimEnd(s) ==
  IF s # <<>> /\ IsSpace(s[Len(s)]) THEN trimEnd(SubSeq(s, 1, Len(s) - 1)) ELSE s

\* input used without .trim()
trim_identity(s) == s

trim(s) == trimEnd(trimStart(s))

RECURSIVE split(_)
split(s) ==
  IF \A i \in 1..Len(s) : s[i] # LF THEN <<s>>
  ELSE LET i == CHOOSE k \in 1..Len(s) : s[k] = LF /\ \A j \in 1..(k - 1) : s[j] # LF
       IN  <<SubSeq(s, 1, i - 1)>> \o split(SubSeq(s, i + 1, Len(s)))

filterBoolean(lines) == SelectSeq(lines, LAMBDA l : l # <<>>)

RECURSIVE join(_)
join(lines) ==
  IF lines = <<>> THEN <<>>
  ELSE IF Len(lines) = 1 THEN lines[1]
  ELSE lines[1] \o <<LF>> \o join(Tail(lines))

RECURSIVE Flatten(_)
Flatten(ss) == IF ss = <<>> THEN <<>> ELSE Head(ss) \o Flatten(Tail(ss))

(* ---- TextDecoder.decode(value, {stream: true}) ---- *)
CodePoint(b2, b3) == IF b2 = "80" /\ b3 = "A6" THEN ELLIPSIS ELSE OTHER3

\* pending: the bytes of an incomplete character kept from the previous call
RECURSIVE decode(_, _)
decode(pending, bytes) ==
  IF bytes = <<>> THEN [text |-> <<>>, pending |-> pending]
  ELSE LET b == Head(bytes) IN
    IF pending = <<>> THEN
      IF b = Lead THEN decode(<<b>>, Tail(bytes))
      ELSE LET r == decode(<<>>, Tail(bytes))
           IN  [text |-> <<IF b \in Cont THEN FFFD ELSE b>> \o r.text,
                pending |-> r.pending]
    ELSE IF b \in Cont THEN
      IF Len(pending) = 1 THEN decode(<<pending[1], b>>, Tail(bytes))
      ELSE LET r == decode(<<>>, Tail(bytes))
           IN  [text |-> <<CodePoint(pending[2], b)>> \o r.text,
                pending |-> r.pending]
    ELSE LET r == decode(<<>>, bytes)
         IN  [text |-> <<FFFD>> \o r.text, pending |-> r.pending]

(* ---- JSON.parse(line) and j?.message?.content ---- *)
\* a line parses iff it is {x} with no brace inside x; x is message.content
JSONparses(line) ==
  /\ Len(line) >= 2
  /\ line[1] = "{"
  /\ line[Len(line)] = "}"
  /\ \A i \in 2..(Len(line) - 1) : line[i] \notin {"{", "}"}

MessageContent(line) == SubSeq(line, 2, Len(line) - 1)

\* variant: a line that fails to parse ends the loop over the lines
RECURSIVE ChunkDeltas_break(_)
ChunkDeltas_break(lines) ==
  IF lines = <<>> THEN <<>>
  ELSE IF ~JSONparses(Head(lines)) THEN <<>>
  ELSE (IF MessageContent(Head(lines)) # <<>>
          THEN <<MessageContent(Head(lines))>> ELSE <<>>)
       \o ChunkDeltas_break(Tail(lines))

\* the for loop over the lines of one chunk: the contents handed to pushDelta
RECURSIVE ChunkDeltas(_)
ChunkDeltas(lines) ==
  IF lines = <<>> THEN <<>>
  ELSE (IF JSONparses(Head(lines)) /\ MessageContent(Head(lines)) # <<>>
          THEN <<MessageContent(Head(lines))>> ELSE <<>>)
       \o ChunkDeltas(Tail(lines))

(* ---- pushDelta ---- *)
\* variant: the map without the test i === idx
pushDelta_everyMessage(msgs, idx, delta) ==
  IF idx = Null THEN msgs
  ELSE [i \in 1..Len(msgs) |->
          [msgs[i] EXCEPT
             !.content = (IF @ = Thinking THEN <<>> ELSE @) \o delta]]

pushDelta(msgs, idx, delta) ==
  IF idx = Null THEN msgs
  ELSE [i \in 1..Len(msgs) |->
          IF i - 1 = idx
            THEN [msgs[i] EXCEPT
                    !.content = (IF @ = Thinking THEN <<>> ELSE @) \o delta]
            ELSE msgs[i]]

RECURSIVE pushAll(_, _, _)
pushAll(msgs, idx, deltas) ==
  IF deltas = <<>> THEN msgs
  ELSE pushAll(pushDelta(msgs, idx, Head(deltas)), idx, Tail(deltas))

(* ---- normalizeMarkdown ---- *)
RECURSIVE LeadingLF(_)
LeadingLF(s) == IF s # <<>> /\ Head(s) = LF THEN 1 + LeadingLF(Tail(s)) ELSE 0

\* md.replace(/\n{3,}/g, "\n\n")
RECURSIVE replaceNewlineRuns(_)
replaceNewlineRuns(s) ==
  IF s = <<>> THEN <<>>
  ELSE LET n == LeadingLF(s) IN
    IF n = 0 THEN <<Head(s)>> \o replaceNewlineRuns(Tail(s))
    ELSE (IF n >= 3 THEN <<LF, LF>> ELSE SubSeq(s, 1, n))
         \o replaceNewlineRuns(SubSeq(s, n + 1, Len(s)))

\* `[^\n`]+` at index p: the index of its closing backtick, 0 when no match
CodeLineEnd(s, p) ==
  IF p > Len(s) \/ s[p] # BT THEN 0
  ELSE LET stops == {q \in (p + 1)..Len(s) : s[q] \in {BT, LF}} IN
    IF stops = {} THEN 0
    ELSE LET q == CHOOSE x \in stops : \A y \in stops : x <= y
         IN  IF s[q] = BT /\ q >= p + 2 THEN q ELSE 0

\* the closing backticks of the consecutive code lines that start at p
RECURSIVE RunEnds(_, _)
RunEnds(s, p) ==
  LET e == CodeLineEnd(s, p) IN
    IF e = 0 THEN <<>>
    ELSE IF e + 1 <= Len(s) /\ s[e + 1] = LF THEN <<e>> \o RunEnds(s, e + 2)
    ELSE <<e>>

\* variant: (?:`[^\n`]+`\n){1,}`[^\n`]+`(?=\n|$)
MatchEnd_twoLines(s, p) ==
  LET ends == RunEnds(s, p)
      n    == Len(ends)
      k    == IF n = 0 THEN 0
              ELSE IF ends[n] = Len(s) \/ s[ends[n] + 1] = LF THEN n
              ELSE n - 1
  IN  IF k >= 2 THEN ends[k] ELSE 0

\* (?:`[^\n`]+`\n){2,}`[^\n`]+`(?=\n|$) at index p, greedy: the index of the
\* last character of the match, 0 when no match
MatchEnd(s, p) ==
  LET ends == RunEnds(s, p)
      n    == Len(ends)
      k    == IF n = 0 THEN 0
              ELSE IF ends[n] = Len(s) \/ s[ends[n] + 1] = LF THEN n
              ELSE n - 1
  IN  IF k >= 3 THEN ends[k] ELSE 0

\* l.replace(/^`|`$/g, "")
stripTicks(l) ==
  LET a == IF l # <<>> /\ Head(l) = BT THEN Tail(l) ELSE l
  IN  IF a # <<>> /\ a[Len(a)] = BT THEN SubSeq(a, 1, Len(a) - 1) ELSE a

\* the replacement callback of collapseInlineCodeLines
Replacement(block) ==
  LET ls    == split(trim(block))
      lines == [i \in 1..Len(ls) |-> stripTicks(ls[i])]
  IN  <<LF, BT, BT, BT, "t", "e", "x", "t", LF>> \o join(lines)
        \o <<LF, BT, BT, BT, LF>>

\* the scan of the global regex from index i on
RECURSIVE collapseFrom(_, _)
collapseFrom(s, i) ==
  IF i > Len(s) THEN <<>>
  ELSE LET p == IF i = 1 /\ s[1] = BT THEN 1
                ELSE IF s[i] = LF THEN i + 1
                ELSE 0
           e == IF p = 0 THEN 0 ELSE MatchEnd(s, p)
       IN  IF e = 0 THEN <<s[i]>> \o collapseFrom(s, i + 1)
           ELSE Replacement(SubSeq(s, i, e)) \o collapseFrom(s, e + 1)

collapseInlineCodeLines(md) == collapseFrom(md, 1)

\* (out.match(/^```.*$/gm) || []).length
IsFenceLine(l) == Len(l) >= 3 /\ l[1] = BT /\ l[2] = BT /\ l[3] = BT

fenceLines(out) == Len(SelectSeq(split(out), IsFenceLine))

\* variant: the closing fence is appended without starting a new line
normalizeMarkdown_noNewline(md) ==
  LET out1 == replaceNewlineRuns(md)
      out2 == collapseInlineCodeLines(out1)
      out3 == IF fenceLines(out2) % 2 = 1 THEN out2 \o <<BT, BT, BT>> ELSE out2
  IN  trimEnd(out3)

normalizeMarkdown(md) ==
  LET out1 == replaceNewlineRuns(md)
      out2 == collapseInlineCodeLines(out1)
      out3 == IF fenceLines(out2) % 2 = 1 THEN out2 \o <<LF, BT, BT, BT>> ELSE out2
  IN  trimEnd(out3)

(* ---- state ---- *)
VARIABLES
  messages,     \* useState<ChatMessage[]>: the conversation log
  input,        \* useState(""): the text of the textarea
  isStreaming,  \* useState(false)
  aiIndexRef,   \* useRef<number | null>: 0-based index of the streaming target
  streams,      \* one record per call of streamFromOllama, in order of start
  lastSend,     \* outcome of the latest handleSend
  md,           \* normalizer: the input text
  out,          \* normalizer: normalizeMarkdown(md)
  out2,         \* normalizer: normalizeMarkdown(out)
  phase,        \* normalizer: "input", "once", "twice"
  msg,          \* render: the message m of the map callback
  view          \* render: what the callback returned for m

chatVars == <<messages, input, isStreaming, aiIndexRef, streams, lastSend>>
normVars == <<md, out, out2, phase>>
renderVars == <<msg, view>>
vars     == <<messages, input, isStreaming, aiIndexRef, streams, lastSend,
             md, out, out2, phase, msg, view>>

(* ---- inputs ---- *)
Hours  == {9}
Inputs == {<<SP>>, <<SP, "a", SP>>}

\* response records: the bytes of the line and the delta it carries
\* (<<>> when the record is malformed or has no message.content)
Records ==
  { [line |-> <<"{", "a", SP, "}">>,               delta |-> <<"a", SP>>],
    [line |-> <<"{", "T", "E2", "80", "A6", "}">>, delta |-> Thinking],
    [line |-> <<"}", "a">>,                        delta |-> <<>>],
    [line |-> <<"{", "}">>,                        delta |-> <<>>] }

Bodies == UNION {[1..n -> Records] : n \in 0..MaxRecords}

RECURSIVE Received(_)
Received(ss) == IF ss = <<>> THEN 0 ELSE Head(ss).nrecords + Received(Tail(ss))

WireOf(body) == Flatten([i \in 1..Len(body) |-> body[i].line \o <<LF>>])

Pieces == {<<LF>>, <<BT>>, <<SP>>, <<"a">>, <<BT, BT, BT>>,
           <<BT, "a", BT, LF>>, <<BT, SP, "b", BT, LF>>}

Texts == {Flatten(ps) : ps \in UNION {[1..n -> Pieces] : n \in 0..MaxPieces}}

\* contents of a message to render: a user message holds a trimmed, non-blank
\* text (handleSend), an assistant message whatever the backend sent
Contents == UNION {[1..n -> {"T", ELLIPSIS, "a", SP}] : n \in 0..MaxContent}

Renderable ==
  {[role |-> "assistant", content |-> c] : c \in Contents}
    \cup {[role |-> "user", content |-> c] : c \in {x \in Contents : x # <<>> /\ trim(x) = x}}

(* ---- construction ---- *)
greeting(h) ==
  <<"Good", SP, IF h < 12 THEN "morning" ELSE IF h < 18 THEN "afternoon" ELSE "evening">>

ChatInit ==
  /\ \E h \in Hours : messages = <<[role |-> "assistant", content |-> greeting(h)]>>
  /\ input = <<>>
  /\ isStreaming = FALSE
  /\ aiIndexRef = Null
  /\ streams = <<>>
  /\ lastSend = "none"

\* nothing rendered yet
NoView == [kind |-> "none", text |-> <<>>]

RenderIdle ==
  /\ msg = [role |-> "assistant", content |-> <<>>]
  /\ view = NoView

Init ==
  /\ ChatInit
  /\ md = <<>> /\ out = <<>> /\ out2 = <<>> /\ phase = "input"
  /\ RenderIdle

InitNorm ==
  /\ ChatInit
  /\ md \in Texts
  /\ out = <<>> /\ out2 = <<>> /\ phase = "input"
  /\ RenderIdle

(* ---- handleSend ---- *)
\* variant: the early return without the isStreaming test
CanSend_ignoresStreaming(inp, streaming) == ~(trim(inp) = <<>>)

\* the negation of the early return of handleSend
CanSend(inp, streaming) == ~(trim(inp) = <<>> \/ streaming)

\* variant: streamFromOllama without setIsStreaming(true)
StreamingOnStart_unset == FALSE

\* setIsStreaming(true), the first statement of streamFromOllama
StreamingOnStart == TRUE

\* variant: the placeholder is not appended together with the user message
nextMessages_userOnly(prev, userMsg) == prev \o <<userMsg>>

\* next = [...prev, userMsg, placeholder] in the updater of handleSend
nextMessages(prev, userMsg) ==
  prev \o <<userMsg, [role |-> "assistant", content |-> Thinking]>>

\* variant: the request carries the log as updated by the send
history_withPlaceholder(msgs, latest) ==
  msgs \o <<latest, [role |-> "assistant", content |-> Thinking]>>

\* history = messages.concat(latest), messages being the log of the render
\* in which handleSend was created
history(msgs, latest) == msgs \o <<latest>>

StreamActive(s) == streams[s].pc \in {"fetch", "read"}

\* a call that has returned keeps its outcome and its request; its reader,
\* decoder and loop variables are gone
Retired(ss) ==
  [s \in 1..Len(ss) |->
     IF ss[s].pc \in {"fetch", "read"} THEN ss[s]
     ELSE [ss[s] EXCEPT !.body = <<>>, !.wire = <<>>, !.pending = <<>>,
                        !.sent = <<>>, !.whole = TRUE, !.pushed = <<>>]]

\* onChange of the textarea
SetInput(v) ==
  /\ v # input
  /\ input' = v
  /\ UNCHANGED <<messages, isStreaming, aiIndexRef, streams, lastSend>>
  /\ UNCHANGED <<normVars, renderVars>>

\* variant: the updater sets aiIndexRef.current = next.length
HandleSend_lengthAsIndex ==
  /\ IF ~CanSend(input, isStreaming)
       THEN /\ lastSend' = IF trim(input) = <<>> THEN "blank" ELSE "busy"
            /\ UNCHANGED <<messages, input, isStreaming, aiIndexRef, streams>>
       ELSE LET userMsg     == [role |-> "user", content |-> trim(input)]
                next        == nextMessages(messages, userMsg)
            IN  /\ Len(streams) < MaxSends
                /\ messages' = next
                /\ aiIndexRef' = Len(next)
                /\ input' = <<>>
                /\ isStreaming' = StreamingOnStart
                /\ streams' = Append(Retired(streams),
                     [pc |-> "fetch", history |-> history(messages, userMsg),
                      nrecords |-> 0,
                      body |-> <<>>, wire |-> <<>>, pending |-> <<>>,
                      sent |-> <<>>, whole |-> TRUE, pushed |-> <<>>])
                /\ lastSend' = "accepted"
  /\ UNCHANGED <<normVars, renderVars>>

\* handleSend up to the await of fetch inside streamFromOllama
HandleSend ==
  /\ IF ~CanSend(input, isStreaming)
       THEN /\ lastSend' = IF trim(input) = <<>> THEN "blank" ELSE "busy"
            /\ UNCHANGED <<messages, input, isStreaming, aiIndexRef, streams>>
       ELSE LET userMsg     == [role |-> "user", content |-> trim(input)]
                next        == nextMessages(messages, userMsg)
            IN  /\ Len(streams) < MaxSends
                /\ messages' = next
                /\ aiIndexRef' = Len(next) - 1
                /\ input' = <<>>
                /\ isStreaming' = StreamingOnStart
                /\ streams' = Append(Retired(streams),
                     [pc |-> "fetch", history |-> history(messages, userMsg),
                      nrecords |-> 0,
                      body |-> <<>>, wire |-> <<>>, pending |-> <<>>,
                      sent |-> <<>>, whole |-> TRUE, pushed |-> <<>>])
                /\ lastSend' = "accepted"
  /\ UNCHANGED <<normVars, renderVars>>

(* ---- streamFromOllama ---- *)
\* variant: neither the catch handler nor the !res?.body branch clears the flag
FetchRejects_keepsFlag(s) ==
  /\ streams[s].pc = "fetch"
  /\ streams' = [streams EXCEPT ![s].pc = "failed"]
  /\ UNCHANGED <<messages, input, isStreaming, aiIndexRef, lastSend>>
  /\ UNCHANGED <<normVars, renderVars>>

\* variant: the catch handler issues the request again
FetchRejects_retries(s) ==
  /\ streams[s].pc = "fetch"
  /\ Len(streams) < MaxSends
  /\ streams' = Append([streams EXCEPT ![s].pc = "failed"],
                       [pc |-> "fetch", history |-> streams[s].history,
                        nrecords |-> 0,
                        body |-> <<>>, wire |-> <<>>, pending |-> <<>>,
                        sent |-> <<>>, whole |-> TRUE, pushed |-> <<>>])
  /\ UNCHANGED <<messages, input, isStreaming, aiIndexRef, lastSend>>
  /\ UNCHANGED <<normVars, renderVars>>

\* fetch rejects: the catch handler, then the !res?.body branch
FetchRejects(s) ==
  /\ streams[s].pc = "fetch"
  /\ isStreaming' = FALSE
  /\ streams' = [streams EXCEPT ![s].pc = "failed"]
  /\ UNCHANGED <<messages, input, aiIndexRef, lastSend>>
  /\ UNCHANGED <<normVars, renderVars>>

\* fetch resolves with a response that has no body
FetchNoBody(s) ==
  /\ streams[s].pc = "fetch"
  /\ isStreaming' = FALSE
  /\ streams' = [streams EXCEPT ![s].pc = "nobody"]
  /\ UNCHANGED <<messages, input, aiIndexRef, lastSend>>
  /\ UNCHANGED <<normVars, renderVars>>

\* fetch resolves with a body: getReader, new TextDecoder
FetchResponds(s, body) ==
  /\ streams[s].pc = "fetch"
  /\ Received(streams) + Len(body) <= MaxRecords
  /\ streams' = [streams EXCEPT ![s].pc = "read", ![s].body = body,
                                ![s].nrecords = Len(body),
                                ![s].wire = WireOf(body)]
  /\ UNCHANGED <<messages, input, isStreaming, aiIndexRef, lastSend>>
  /\ UNCHANGED <<normVars, renderVars>>

\* one iteration of the read loop: a chunk of n bytes arrives
ReadChunk(s, n) ==
  /\ streams[s].pc = "read"
  /\ n \in 1..Len(streams[s].wire)
  /\ LET st     == streams[s]
         value  == SubSeq(st.wire, 1, n)
         r      == decode(st.pending, value)
         deltas == ChunkDeltas(filterBoolean(split(r.text)))
     IN  /\ messages' = pushAll(messages, aiIndexRef, deltas)
         /\ streams' = [streams EXCEPT
               ![s].wire    = SubSeq(st.wire, n + 1, Len(st.wire)),
               ![s].pending = r.pending,
               ![s].sent    = st.sent \o value,
               ![s].whole   = st.whole /\ value[n] = LF,
               ![s].pushed  = st.pushed \o deltas]
  /\ UNCHANGED <<input, isStreaming, aiIndexRef, lastSend>>
  /\ UNCHANGED <<normVars, renderVars>>

\* variant: the loop is followed by setIsStreaming(false) only
ReadDone_noNormalize(s) ==
  /\ streams[s].pc = "read"
  /\ isStreaming' = FALSE
  /\ streams' = [streams EXCEPT ![s].pc = "done"]
  /\ UNCHANGED <<messages, input, aiIndexRef, lastSend>>
  /\ UNCHANGED <<normVars, renderVars>>

\* variant: a target still holding the sentinel is emptied at the end
ReadDone_clearsSentinel(s) ==
  /\ streams[s].pc = "read"
  /\ isStreaming' = FALSE
  /\ messages' = [i \in 1..Len(messages) |->
                    IF i - 1 = aiIndexRef
                      THEN [messages[i] EXCEPT !.content =
                              normalizeMarkdown(IF @ = Thinking THEN <<>> ELSE @)]
                      ELSE messages[i]]
  /\ streams' = [streams EXCEPT ![s].pc = "done"]
  /\ UNCHANGED <<input, aiIndexRef, lastSend>>
  /\ UNCHANGED <<normVars, renderVars>>

\* reader.read() reports done (bytes the server has not sent yet are lost):
\* the statements after the loop
ReadDone(s) ==
  /\ streams[s].pc = "read"
  /\ isStreaming' = FALSE
  /\ messages' = [i \in 1..Len(messages) |->
                    IF i - 1 = aiIndexRef
                      THEN [messages[i] EXCEPT !.content = normalizeMarkdown(@)]
                      ELSE messages[i]]
  /\ streams' = [streams EXCEPT ![s].pc = "done"]
  /\ UNCHANGED <<input, aiIndexRef, lastSend>>
  /\ UNCHANGED <<normVars, renderVars>>

\* reader.read() rejects (the request is aborted): the error leaves
\* streamFromOllama and handleSend, nothing after the loop runs
ReadFails(s) ==
  /\ streams[s].pc = "read"
  /\ streams' = [streams EXCEPT ![s].pc = "aborted"]
  /\ UNCHANGED <<messages, input, isStreaming, aiIndexRef, lastSend>>
  /\ UNCHANGED <<normVars, renderVars>>

Next ==
  \/ \E v \in Inputs : SetInput(v)
  \/ HandleSend
  \/ \E s \in 1..Len(streams) : FetchRejects(s)
  \/ \E s \in 1..Len(streams) : FetchNoBody(s)
  \/ \E s \in {t \in 1..Len(streams) : streams[t].pc = "fetch"} :
       \E body \in Bodies : FetchResponds(s, body)
  \/ \E s \in {t \in 1..Len(streams) : streams[t].pc = "read"} :
       \E n \in 1..Len(streams[s].wire) : ReadChunk(s, n)
  \/ \E s \in 1..Len(streams) : ReadDone(s)
  \/ \E s \in 1..Len(streams) : ReadFails(s)

Spec == Init /\ [][Next]_vars

(* ---- the normalizer applied to a text, then to its own output ---- *)
Normalize ==
  /\ phase = "input"
  /\ out' = normalizeMarkdown(md)
  /\ phase' = "once"
  /\ UNCHANGED <<md, out2>>
  /\ UNCHANGED <<chatVars, renderVars>>

Renormalize ==
  /\ phase = "once"
  /\ out2' = normalizeMarkdown(out)
  /\ phase' = "twice"
  /\ UNCHANGED <<md, out>>
  /\ UNCHANGED <<chatVars, renderVars>>

NextNorm == Normalize \/ Renormalize

SpecNorm == InitNorm /\ [][NextNorm]_vars

(* ---- the body of a message bubble ---- *)
\* the ternary of the map callback
Render(m) ==
  IF m.content = Thinking THEN [kind |-> "TypingDots", text |-> <<>>]
  ELSE IF m.role = "assistant" THEN [kind |-> "PrettyMarkdown", text |-> m.content]
  ELSE [kind |-> "literal", text |-> m.content]

InitRender ==
  /\ ChatInit
  /\ md = <<>> /\ out = <<>> /\ out2 = <<>> /\ phase = "input"
  /\ msg \in Renderable
  /\ view = NoView

RenderMessage ==
  /\ view = NoView
  /\ view' = Render(msg)
  /\ UNCHANGED msg
  /\ UNCHANGED <<chatVars, normVars>>

NextRender == RenderMessage

SpecRender == InitRender /\ [][NextRender]_vars

(* ---- observers used by the properties ---- *)
Streams == 1..Len(streams)

Last == Len(streams)

Blank(inp) == \A i \in 1..Len(inp) : IsSpace(inp[i])

ConnFailed(s) == streams[s].pc \in {"failed", "nobody"}

Placeholder == [role |-> "assistant", content |-> Thinking]

\* what the loop body hands to pushDelta when all bytes arrive as one chunk
Unsplit(bytes) == ChunkDeltas(filterBoolean(split(decode(<<>>, bytes).text)))

\* number of complete lines among the bytes received
RECURSIVE CountLF(_)
CountLF(bytes) ==
  IF bytes = <<>> THEN 0
  ELSE (IF Head(bytes) = LF THEN 1 ELSE 0) + CountLF(Tail(bytes))

\* the deltas carried by the first k records of a body, by the table Records
ExpectedDeltas(body, k) ==
  SelectSeq([i \in 1..k |-> body[i].delta], LAMBDA d : d # <<>>)

TypeOK ==
  /\ isStreaming \in BOOLEAN
  /\ aiIndexRef \in {Null} \cup (0..(Len(messages) - 1))
  /\ Len(streams) <= MaxSends
  /\ lastSend \in {"none", "accepted", "blank", "busy"}
  /\ phase \in {"input", "once", "twice"}

(* ---- properties ---- *)

\* C1 (as claimed): when a stream has completed, the fragments handed to
\* pushDelta are those the unsplit byte stream gives, whatever the chunking.
C1_SplitInvariant ==
  \A s \in Streams :
    streams[s].pc = "done" => streams[s].pushed = Unsplit(streams[s].sent)

\* C2 (as claimed): while deltas d1..dk have been applied to the target that
\* started as the sentinel, the target's content is d1 + ... + dk.
C2_AppendOnly ==
  \A s \in Streams :
    (streams[s].pc = "read" /\ streams[s].pushed # <<>>)
      => messages[aiIndexRef + 1].content = Flatten(streams[s].pushed)

\* C3: a handleSend invoked while a stream is active changes neither the log
\* nor the handle and issues no request.
C3_BusySendIsNoOp ==
  [][(HandleSend /\ \E s \in Streams : StreamActive(s))
       => UNCHANGED <<messages, aiIndexRef, streams>>]_vars

C3_Witness ==
  /\ lastSend = "busy"
  /\ \E s \in Streams : StreamActive(s)
  /\ Len(messages) = 3

\* C4: handleSend with an empty or whitespace-only input changes neither the
\* log, the streaming flag nor the handle and issues no request.
C4_BlankSendIsNoOp ==
  [][(HandleSend /\ Blank(input))
       => UNCHANGED <<messages, isStreaming, aiIndexRef, streams>>]_vars

C4_Witness ==
  /\ lastSend = "blank"
  /\ input = <<SP>>
  /\ ~isStreaming

\* C5 (as claimed): normalizeMarkdown(normalizeMarkdown(x)) = normalizeMarkdown(x).
C5_Idempotent == phase = "twice" => out2 = out

\* C6: when every chunk so far ended on a line boundary, the deltas handed to
\* pushDelta are exactly the contents of the valid records received, in order,
\* malformed records in between notwithstanding; the handle is set while the
\* loop runs, so each is applied.
C6_MalformedSkipped ==
  \A s \in Streams :
    (streams[s].pc \in {"read", "done", "aborted"} /\ streams[s].whole)
      => /\ streams[s].pushed
              = ExpectedDeltas(streams[s].body, CountLF(streams[s].sent))
         /\ (streams[s].pc = "read" => aiIndexRef # Null)

C6_Witness ==
  \E s \in Streams :
    /\ streams[s].pc = "done"
    /\ streams[s].whole
    /\ Len(streams[s].body) = 2
    /\ streams[s].body[1].line = <<"}", "a">>
    /\ streams[s].wire = <<>>
    /\ streams[s].pushed = <<<<"a", SP>>>>

\* the state after a connection failure, while no later send has been made
C7_ConnFailState ==
  (Last >= 1 /\ ConnFailed(Last))
    => /\ ~isStreaming
       /\ messages = streams[Last].history \o <<Placeholder>>
       /\ \A v \in Inputs : ~Blank(v) => CanSend(v, isStreaming)

\* C7: after fetch rejected or the response had no body, the flag is false,
\* the log is the log of the accepted send with the placeholder still the
\* sentinel, and a following handleSend with a non-blank input is accepted.
C7_ConnFailRecoverable ==
  /\ []C7_ConnFailState
  /\ [][(HandleSend /\ Last >= 1 /\ ConnFailed(Last) /\ ~Blank(input))
          => (lastSend' = "accepted" /\ Len(streams') = Len(streams) + 1)]_vars

C7_Witness ==
  /\ Len(streams) = 2
  /\ ConnFailed(1)
  /\ streams[2].pc = "fetch"
  /\ lastSend = "accepted"
  /\ messages[3].content = Thinking

\* C8 (as claimed): whenever no stream is active the handle is none.
C8_HandleInvalidated ==
  (\A s \in Streams : ~StreamActive(s)) => aiIndexRef = Null

\* C9 (as claimed): once a read of the next chunk has failed, the stream has
\* ended with the streaming flag cleared, so that a later send is accepted.
C9_AbortClearsFlag ==
  \A s \in Streams : streams[s].pc = "aborted" => ~isStreaming

\* C10: at most one stream is active (fetching or in its read loop), hence at
\* most one message can receive deltas.
C10_OneStream ==
  /\ Cardinality({s \in Streams : StreamActive(s)}) <= 1
  /\ Cardinality({s \in Streams : streams[s].pc = "read"}) <= 1

C10_Witness ==
  /\ Len(streams) = 2
  /\ streams[1].pc = "done"
  /\ streams[2].pc = "read"
  /\ streams[2].pushed # <<>>
\* the 1-based index in the log of the placeholder appended by send number s
Target(s) == 2 * s + 1

\* C11: across every transition the log never shrinks, every existing message
\* keeps its index and role, and only the content of the message at the
\* handle changes, and only while a read loop runs.
C11_AppendOnlyLog ==
  [][/\ Len(messages') >= Len(messages)
     /\ \A i \in 1..Len(messages) :
          /\ messages'[i].role = messages[i].role
          /\ messages'[i].content # messages[i].content
               => /\ i - 1 = aiIndexRef
                  /\ \E s \in Streams : streams[s].pc = "read"]_vars

C11_Witness ==
  /\ Len(streams) = 2
  /\ Len(messages) = 5
  /\ streams[2].pc = "done"
  /\ messages[3].content = <<"a">>
  /\ messages[5].content = <<"a">>

\* C12: no reachable log ends with a user message, and while the request of
\* an accepted send is pending the handle is the index of the last message,
\* which is the placeholder with the sentinel, preceded by the user message.
C12_AtomicAppend ==
  /\ messages[Len(messages)].role # "user"
  /\ (Last >= 1 /\ streams[Last].pc = "fetch")
       => /\ aiIndexRef = Len(messages) - 1
          /\ messages[Len(messages)] = Placeholder
          /\ messages[Len(messages) - 1].role = "user"

C12_Witness ==
  /\ Len(streams) = 1
  /\ streams[1].pc = "fetch"
  /\ lastSend = "accepted"
  /\ messages[2] = [role |-> "user", content |-> <<"a">>]
  /\ aiIndexRef = 2
\* a is b with some elements left out
RECURSIVE IsSubseq(_, _)
IsSubseq(a, b) ==
  IF a = <<>> THEN TRUE
  ELSE IF b = <<>> THEN FALSE
  ELSE IF Head(a) = Head(b) THEN IsSubseq(Tail(a), Tail(b))
  ELSE IsSubseq(a, Tail(b))

\* C13 (as claimed): when a stream has ended, every delta that was applied is
\* the content of a newline-terminated record; a final fragment without its
\* newline contributes nothing.
C13_TrailingFragmentDiscarded ==
  \A s \in Streams :
    streams[s].pc = "done"
      => IsSubseq(streams[s].pushed,
                  ExpectedDeltas(streams[s].body, CountLF(streams[s].sent)))
\* the text after rules 1 and 2 of the normalizer
AfterRules12(x) == collapseInlineCodeLines(replaceNewlineRuns(x))

\* C14: the output of normalizeMarkdown has an even number of lines that start
\* with the fence marker, and when the text after rules 1 and 2 has an odd
\* number of them the output is that text followed by one closing fence line.
C14_FencesBalanced ==
  phase # "input"
    => /\ fenceLines(out) % 2 = 0
       /\ fenceLines(AfterRules12(md)) % 2 = 1
            => out = AfterRules12(md) \o <<LF, BT, BT, BT>>

C14_Witness ==
  /\ phase = "once"
  /\ md = <<BT, BT, BT, "a", LF, "a", SP>>
  /\ out = <<BT, BT, BT, "a", LF, "a", SP, LF, BT, BT, BT>>

\* a line wrapped in single backticks, and what it wraps
Wrapped(l) ==
  /\ Len(l) >= 3
  /\ l[1] = BT
  /\ l[Len(l)] = BT
  /\ \A i \in 2..(Len(l) - 1) : l[i] # BT

Inner(l) == SubSeq(l, 2, Len(l) - 1)

\* the number of consecutive wrapped lines from line i on
RECURSIVE RunLength(_, _)
RunLength(ls, i) ==
  IF i > Len(ls) \/ ~Wrapped(ls[i]) THEN 0 ELSE 1 + RunLength(ls, i + 1)

\* the lines of a text in which every maximal run of three or more wrapped
\* lines has become a block fenced as text (set off by an empty line after it,
\* and before it when it opens the text) and every other line is kept
RECURSIVE ExpectedLines(_, _)
ExpectedLines(ls, i) ==
  IF i > Len(ls) THEN <<>>
  ELSE LET n == RunLength(ls, i) IN
    IF n >= 3
      THEN (IF i = 1 THEN << <<>> >> ELSE <<>>)
           \o << <<BT, BT, BT, "t", "e", "x", "t">> >>
           \o [j \in 1..n |-> Inner(ls[i + j - 1])]
           \o << <<BT, BT, BT>>, <<>> >>
           \o ExpectedLines(ls, i + n)
    ELSE IF n >= 1
      THEN SubSeq(ls, i, i + n - 1) \o ExpectedLines(ls, i + n)
    ELSE <<ls[i]>> \o ExpectedLines(ls, i + 1)

ExpectedCollapse(t) == join(ExpectedLines(split(t), 1))

\* rules 3 and 4 of the normalizer
CloseAndTrim(t) ==
  trimEnd(IF fenceLines(t) % 2 = 1 THEN t \o <<LF, BT, BT, BT>> ELSE t)

\* C15: normalizeMarkdown turns every run of three or more consecutive lines
\* wrapped in single backticks into one block fenced as text whose body is the
\* inner contents of the lines, in order and unchanged, and leaves shorter
\* runs and all other lines as they are (rules 1, 3 and 4 aside).
C15_RunsCollapsed ==
  phase # "input"
    => out = CloseAndTrim(ExpectedCollapse(replaceNewlineRuns(md)))

C15_Witness ==
  /\ phase = "once"
  /\ md = <<BT, "a", BT, LF, BT, SP, "b", BT, LF, BT, "a", BT, LF, "a">>
  /\ out = <<LF, BT, BT, BT, "t", "e", "x", "t", LF,
             "a", LF, SP, "b", LF, "a", LF, BT, BT, BT, LF, LF, "a">>

\* C16 (as claimed): a user message is shown as its literal content whatever
\* the content, an assistant message holding the sentinel as the thinking
\* indicator, every other assistant message goes to the markdown renderer
\* unmodified.
C16_RenderDecision ==
  view # NoView
    => /\ msg.role = "user" => view = [kind |-> "literal", text |-> msg.content]
       /\ (msg.role = "assistant" /\ msg.content = Thinking)
            => view.kind = "TypingDots"
       /\ (msg.role = "assistant" /\ msg.content # Thinking)
            => view = [kind |-> "PrettyMarkdown", text |-> msg.content]

\* the content of a placeholder after the deltas have been applied in order
Accumulated(deltas) == pushAll(<<Placeholder>>, 0, deltas)[1].content

\* C17: when the latest stream has completed, the content of its target is
\* normalizeMarkdown of all that its deltas accumulated, and every message
\* before the target is as it was in the request of that stream.
C17_NormalizedAtEnd ==
  (Last >= 1 /\ streams[Last].pc = "done")
    => /\ messages[Target(Last)].content
            = normalizeMarkdown(Accumulated(streams[Last].pushed))
       /\ Len(messages) = Target(Last)
       /\ SubSeq(messages, 1, Target(Last) - 1) = streams[Last].history

C17_Witness ==
  /\ Last = 1
  /\ streams[1].pc = "done"
  /\ streams[1].pushed = <<<<"a", SP>>, <<"a", SP>>>>
  /\ messages[3].content = <<"a", SP, "a">>

\* C18: when the latest stream has ended, in whatever way, without a delta,
\* the content of its target is still the sentinel.
C18_ZeroDeltasKeepSentinel ==
  (Last >= 1 /\ ~StreamActive(Last) /\ streams[Last].pushed = <<>>)
    => messages[Target(Last)].content = Thinking

C18_Witness ==
  /\ Last = 1
  /\ streams[1].pc = "done"
  /\ streams[1].body = <<[line |-> <<"{", "}">>, delta |-> <<>>]>>
  /\ streams[1].wire = <<>>
  /\ streams[1].pushed = <<>>
  /\ messages[3].content = Thinking

\* C19: the messages of the request of send number s are the log before that
\* send followed by the user message: the messages in front of the placeholder
\* of that send, in log order, the placeholder not among them.
C19_RequestHistory ==
  \A s \in Streams :
    LET h == streams[s].history IN
      /\ Len(h) = Target(s) - 1
      /\ h = SubSeq(messages, 1, Len(h))
      /\ h[Len(h)].role = "user"

C19_Witness ==
  /\ Last = 2
  /\ streams[2].pc = "fetch"
  /\ Len(streams[2].history) = 4
  /\ streams[2].history[3] = [role |-> "assistant", content |-> <<"a">>]
  /\ streams[2].history[4] = [role |-> "user", content |-> <<"a">>]

\* C20: the number of requests issued is the number of accepted sends: each
\* accepted send adds one request and two messages, a rejected send and a
\* connection failure add none.
C20_OneRequestPerSend == Len(messages) = 1 + 2 * Len(streams)

C20_Witness ==
  /\ Last = 2
  /\ ConnFailed(1)
  /\ ConnFailed(2)
  /\ lastSend = "blank"
  /\ Len(messages) = 5
\* C21: whenever the handle aiIndexRef is set it is an index of the log and
\* the message at that index has role assistant; while a stream is active it
\* is the index of the last message of the log.
C21_HandleValid ==
  /\ aiIndexRef # Null
       => /\ aiIndexRef \in 0..(Len(messages) - 1)
          /\ messages[aiIndexRef + 1].role = "assistant"
  /\ (\E s \in Streams : StreamActive(s))
       => aiIndexRef = Len(messages) - 1

C21_Witness ==
  /\ Last = 2
  /\ streams[2].pc = "read"
  /\ streams[2].pushed = <<<<"a", SP>>>>
  /\ aiIndexRef = 4
  /\ Len(messages) = 5
  /\ messages[5] = [role |-> "assistant", content |-> <<"a", SP>>]
====
